---- MODULE Spec2Model ----
(***************************************************************************)
(* remote-executor: the worker pool of package api.                        *)
(*                                                                         *)
(* Two versions of the pool live in the repository:                        *)
(*   - the bulk pool (ScheduleJobs + Wait / WaitAndReturnResults /         *)
(*     StreamResults), with buffered jobs and results channels;            *)
(*   - the synchronous pool (RunJob with a context), with an unbuffered    *)
(*     jobs channel and a per-job result slot and done channel.            *)
(* Goroutines are modelled as records with a program counter; one action   *)
(* is one Go statement that touches shared state.                          *)
(***************************************************************************)
EXTENDS Integers, Sequences, FiniteSets, Bags, TLC

\* ------------------------------------------------------------------ bounds
MaxWorkers == 2
MaxHosts == 2
MaxQueue == 1
MaxStr == 4
MaxSeqHosts == 5

\* The host names a run draws its host list from (duplicates allowed).
HostNames == {"h1", "h2"}

Nil == "nil"

\* Result{}: the zero value of Result.
ZeroResult == [Host |-> "", Output |-> Nil, Err |-> Nil]

\* What executor(host) can return: ssh.Dial or NewSession failed (no output,
\* an error), the command ran (output, no error), or the command exited
\* non-zero (CombinedOutput returns output and an error).
ExecutorReturns ==
    { [Output |-> Nil,   Err |-> "could not dial"],
      [Output |-> "out", Err |-> Nil],
      [Output |-> "out", Err |-> "exit status 1"] }

\* An executor is given by what it can return for each host. The executor of
\* the pool dials the host and runs the command: what it returns is up to the
\* network and the host.
Ssh == [h \in HostNames |-> ExecutorReturns]

\* The stubs that stand in for the executor in a test: deterministic, what
\* they return is a function of the host.
Stubs == { [h \in HostNames |-> {f[h]}] : f \in [HostNames -> ExecutorReturns] }

\* A run of the pool makes no call of Append22 (the host list is parsed before).
NoAppend22 == [pc |-> "none", host |-> << >>, res |-> << >>, again |-> << >>]

\* ---------------------------------------------------------------- state
VARIABLES
    numWorkers,   \* WorkerPool.numWorkers
    queueLength,  \* capacity of jobs and results (0 in the synchronous pool)
    hosts,        \* the host list handed to ScheduleJobs / the RunJob callers
    plan,         \* the drain-mode calls the caller makes: [modes, concurrent]
    executor,     \* what executes a job: the ssh executor, or a stub of a test
    a22,          \* a caller of utils.Append22: [pc, host, res, again]
    jobs,         \* WorkerPool.jobs: [buf, closed]
    results,      \* WorkerPool.results: [buf, closed]
    receiver,     \* the sink handed to StreamResults: [buf, closed]
    wg,           \* WorkerPool.wg: the WaitGroup counter
    workers,      \* the goroutines started by `go wp.do()`
    sw,           \* the ScheduleWorkers call: [pc, i]
    sj,           \* the ScheduleJobs call: [pc, i]
    drains,       \* the drain-mode calls: [mode, pc, acc, cur]
    watchers,     \* the goroutines started by wait()
    calls,        \* the RunJob calls of the synchronous pool
    mainpc,       \* the caller of the pool
    proc,         \* "running", "exited" or the panic that killed the process
    execLog,      \* history: bag of what the executor returned, as Results
    nZero,        \* history: how often wg.Done brought the counter to zero
    nClose,       \* history: how often close(wp.results) succeeded
    logged        \* the Results main has received from the sink and logged

vars == << numWorkers, queueLength, hosts, plan, executor, a22, jobs, results, receiver, wg, workers,
           sw, sj, drains, watchers, calls, mainpc, proc, execLog, nZero, nClose,
           logged >>

poolVars == << numWorkers, queueLength, hosts, plan, executor, a22 >>
histVars == << execLog, nZero, nClose, logged >>

\* ---------------------------------------------------------------- helpers
OpenChan == [buf |-> << >>, closed |-> FALSE]

Running == proc = "running"

PanicSendClosed == "panic: send on closed channel"
PanicCloseClosed == "panic: close of closed channel"

\* The sequences over S of length at most n.
SeqUpTo(S, n) == UNION { [1..k -> S] : k \in 0..n }

RECURSIVE SeqToBag(_)
SeqToBag(s) ==
    IF s = << >> THEN EmptyBag
    ELSE SetToBag({Head(s)}) (+) SeqToBag(Tail(s))

RECURSIVE MapHost(_)
MapHost(s) == IF s = << >> THEN << >> ELSE << Head(s).Host >> \o MapHost(Tail(s))

\* A worker goroutine that has just been started.
NewWorker == [pc |-> "recv", host |-> "", ref |-> 0, output |-> Nil, err |-> Nil]

WorkerIds == DOMAIN workers


\* ------------------------------------------------- bulk pool: ScheduleWorkers
\* Mutant of ScheduleWorkersMore: the loop runs once too often.
ScheduleWorkersMoreOffByOne(i) == i <= numWorkers

\* The loop condition of ScheduleWorkers: i < wp.numWorkers.
ScheduleWorkersMore(i) == i < numWorkers

\* The state of a ScheduleWorkers call whose loop variable is i.
ScheduleWorkersAt(i) ==
    [pc |-> IF ScheduleWorkersMore(i) THEN "add" ELSE "ret", i |-> i]

\* wp.wg.Add(1)
ScheduleWorkersAdd ==
    /\ Running
    /\ sw.pc = "add"
    /\ wg' = wg + 1
    /\ sw' = [sw EXCEPT !.pc = "go"]
    /\ UNCHANGED << poolVars, jobs, results, receiver, workers, sj, drains,
                    watchers, calls, mainpc, proc, histVars >>

\* go wp.do(); i++
ScheduleWorkersGo ==
    /\ Running
    /\ sw.pc = "go"
    /\ workers' = Append(workers, NewWorker)
    /\ sw' = ScheduleWorkersAt(sw.i + 1)
    /\ UNCHANGED << poolVars, jobs, results, receiver, wg, sj, drains,
                    watchers, calls, mainpc, proc, histVars >>

\* ------------------------------------------------------ bulk pool: worker
\* A send on (or receive from) a channel of capacity 0 is a rendezvous.
Unbuffered == queueLength = 0

\* Mutant of WorkerResult: only the first worker passes the output on.
WorkerResultFirstOnly(w) ==
    [Host |-> workers[w].host,
     Output |-> IF w = 1 THEN workers[w].output ELSE Nil,
     Err |-> workers[w].err]

\* Mutant of WorkerResult: the worker leaves the executor's error out.
WorkerResultNoErr(w) ==
    [Host |-> workers[w].host, Output |-> workers[w].output, Err |-> Nil]

\* The Result a worker builds from its job and what the executor returned.
WorkerResult(w) ==
    [Host |-> workers[w].host, Output |-> workers[w].output, Err |-> workers[w].err]

\* Mutant of ScheduleJobsAt: ScheduleJobs returns without close(wp.jobs).
ScheduleJobsAtNoClose(i) ==
    [pc |-> IF i <= Len(hosts) THEN "send" ELSE "ret", i |-> i]

\* ScheduleJobs whose loop is at hosts[i]; after the last host comes the close.
ScheduleJobsAt(i) ==
    [pc |-> IF i <= Len(hosts) THEN "send" ELSE "close", i |-> i]

\* Mutant of WorkerRecv: the received host stays in the Job Queue.
WorkerRecvKeepsHost(w) ==
    /\ Running
    /\ workers[w].pc = "recv"
    /\ jobs.buf # << >>
    /\ workers' = [workers EXCEPT ![w].pc = "exec", ![w].host = Head(jobs.buf)]
    /\ UNCHANGED << poolVars, jobs, results, receiver, wg, sw, sj, drains, watchers,
                    calls, mainpc, proc, histVars >>

\* for host := range wp.jobs: a host is received, from the buffer or, on an
\* unbuffered channel, straight from the blocked sender; the executor is entered.
WorkerRecv(w) ==
    /\ Running
    /\ workers[w].pc = "recv"
    /\ \/ /\ jobs.buf # << >>
          /\ workers' = [workers EXCEPT ![w].pc = "exec", ![w].host = Head(jobs.buf)]
          /\ jobs' = [jobs EXCEPT !.buf = Tail(jobs.buf)]
          /\ sj' = sj
       \/ /\ Unbuffered
          /\ ~jobs.closed
          /\ sj.pc = "send"
          /\ workers' = [workers EXCEPT ![w].pc = "exec", ![w].host = hosts[sj.i]]
          /\ sj' = ScheduleJobsAt(sj.i + 1)
          /\ jobs' = jobs
    /\ UNCHANGED << poolVars, results, receiver, wg, sw, drains, watchers,
                    calls, mainpc, proc, histVars >>

\* for host := range wp.jobs: the channel is closed and drained, the loop ends.
WorkerRangeEnd(w) ==
    /\ Running
    /\ workers[w].pc = "recv"
    /\ jobs.closed
    /\ jobs.buf = << >>
    /\ workers' = [workers EXCEPT ![w].pc = "wgDone"]
    /\ UNCHANGED << poolVars, jobs, results, receiver, wg, sw, sj, drains,
                    watchers, calls, mainpc, proc, histVars >>

\* What executor(host) can return in this run.
ExecutorOutcomes(host) == executor[host]

\* Mutant of WorkerExecutor: the worker calls the executor again after an error.
WorkerExecutorRetry(w) ==
    /\ Running
    /\ workers[w].pc = "exec"
    /\ \E r \in ExecutorOutcomes(workers[w].host) :
          /\ workers' = [workers EXCEPT ![w].pc = IF r.Err # Nil /\ workers[w].err = Nil
                                                  THEN "exec" ELSE "send",
                                        ![w].output = r.Output,
                                        ![w].err = r.Err]
          /\ execLog' = execLog (+) SetToBag({[Host |-> workers[w].host,
                                               Output |-> r.Output,
                                               Err |-> r.Err]})
    /\ UNCHANGED << poolVars, jobs, results, receiver, wg, sw, sj, drains,
                    watchers, calls, mainpc, proc, nZero, nClose, logged >>

\* output, err := executor(host) returns.
WorkerExecutor(w) ==
    /\ Running
    /\ workers[w].pc = "exec"
    /\ \E r \in ExecutorOutcomes(workers[w].host) :
          /\ workers' = [workers EXCEPT ![w].pc = "send",
                                        ![w].output = r.Output,
                                        ![w].err = r.Err]
          /\ execLog' = execLog (+) SetToBag({[Host |-> workers[w].host,
                                               Output |-> r.Output,
                                               Err |-> r.Err]})
    /\ UNCHANGED << poolVars, jobs, results, receiver, wg, sw, sj, drains,
                    watchers, calls, mainpc, proc, nZero, nClose, logged >>

\* Mutant of WorkerSend: the worker drops the Result when the queue is full.
WorkerSendDropWhenFull(w) ==
    /\ Running
    /\ workers[w].pc = "send"
    /\ IF results.closed
       THEN /\ proc' = PanicSendClosed
            /\ UNCHANGED << results, workers >>
       ELSE /\ results' = IF Len(results.buf) < queueLength
                          THEN [results EXCEPT !.buf = Append(results.buf, WorkerResult(w))]
                          ELSE results
            /\ workers' = [workers EXCEPT ![w] = NewWorker]
            /\ proc' = proc
    /\ UNCHANGED << poolVars, jobs, receiver, wg, sw, sj, drains, watchers,
                    calls, mainpc, histVars >>

\* wp.results <- Result{host, output, err} on a buffered channel; a send on a
\* closed channel panics.
WorkerSend(w) ==
    /\ Running
    /\ workers[w].pc = "send"
    /\ IF results.closed
       THEN /\ proc' = PanicSendClosed
            /\ UNCHANGED << results, workers >>
       ELSE /\ Len(results.buf) < queueLength
            /\ results' = [results EXCEPT !.buf = Append(results.buf, WorkerResult(w))]
            /\ workers' = [workers EXCEPT ![w] = NewWorker]
            /\ proc' = proc
    /\ UNCHANGED << poolVars, jobs, receiver, wg, sw, sj, drains, watchers,
                    calls, mainpc, histVars >>

\* The loop of worker has ended.
WorkerLoopEnded(w) == workers[w].pc = "wgDone"

\* Mutant of WorkerDone: the worker signals its exit twice.
WorkerDoneTwice(w) ==
    /\ Running
    /\ WorkerLoopEnded(w)
    /\ wg' = wg - 2
    /\ nZero' = IF wg' = 0 THEN nZero + 1 ELSE nZero
    /\ workers' = [workers EXCEPT ![w].pc = "exited"]
    /\ UNCHANGED << poolVars, jobs, results, receiver, sw, sj, drains, watchers,
                    calls, mainpc, proc, execLog, nClose, logged >>

\* Mutant of WorkerDone: the worker returns without wp.wg.Done().
WorkerDoneForgotten(w) ==
    /\ Running
    /\ WorkerLoopEnded(w)
    /\ workers' = [workers EXCEPT ![w].pc = "exited"]
    /\ UNCHANGED << poolVars, jobs, results, receiver, wg, sw, sj, drains, watchers,
                    calls, mainpc, proc, histVars >>

\* wp.wg.Done()
WorkerDone(w) ==
    /\ Running
    /\ WorkerLoopEnded(w)
    /\ wg' = wg - 1
    /\ nZero' = IF wg' = 0 THEN nZero + 1 ELSE nZero
    /\ workers' = [workers EXCEPT ![w].pc = "exited"]
    /\ UNCHANGED << poolVars, jobs, results, receiver, sw, sj, drains, watchers,
                    calls, mainpc, proc, execLog, nClose, logged >>

\* ---------------------------------------------------- bulk pool: ScheduleJobs
\* Mutant of ScheduleJobsSend: the hosts are sent from the end of the list.
ScheduleJobsSendReversed ==
    /\ Running
    /\ sj.pc = "send"
    /\ IF jobs.closed
       THEN /\ proc' = PanicSendClosed
            /\ UNCHANGED << jobs, sj >>
       ELSE /\ Len(jobs.buf) < queueLength
            /\ jobs' = [jobs EXCEPT !.buf = Append(jobs.buf, hosts[Len(hosts) + 1 - sj.i])]
            /\ sj' = ScheduleJobsAt(sj.i + 1)
            /\ proc' = proc
    /\ UNCHANGED << poolVars, results, receiver, wg, workers, sw, drains,
                    watchers, calls, mainpc, histVars >>

\* wp.jobs <- host on a buffered channel (the unbuffered hand-over is WorkerRecv).
ScheduleJobsSend ==
    /\ Running
    /\ sj.pc = "send"
    /\ IF jobs.closed
       THEN /\ proc' = PanicSendClosed
            /\ UNCHANGED << jobs, sj >>
       ELSE /\ Len(jobs.buf) < queueLength
            /\ jobs' = [jobs EXCEPT !.buf = Append(jobs.buf, hosts[sj.i])]
            /\ sj' = ScheduleJobsAt(sj.i + 1)
            /\ proc' = proc
    /\ UNCHANGED << poolVars, results, receiver, wg, workers, sw, drains,
                    watchers, calls, mainpc, histVars >>

\* close(wp.jobs)
ScheduleJobsClose ==
    /\ Running
    /\ sj.pc = "close"
    /\ IF jobs.closed
       THEN /\ proc' = PanicCloseClosed
            /\ UNCHANGED << jobs, sj >>
       ELSE /\ jobs' = [jobs EXCEPT !.closed = TRUE]
            /\ sj' = [sj EXCEPT !.pc = "ret"]
            /\ proc' = proc
    /\ UNCHANGED << poolVars, results, receiver, wg, workers, sw, drains,
                    watchers, calls, mainpc, histVars >>

\* ------------------------------------------------ bulk pool: the drain modes
DrainModes == {"Wait", "WaitAndReturnResults", "StreamResults"}

\* A drain-mode call that has just been entered.
DrainCall(mode) == [mode |-> mode, pc |-> "wait", acc |-> << >>, cur |-> ZeroResult]

\* Mutant of WaitGroupZero: the watcher does not wait for the workers.
WaitGroupZeroNoWait == TRUE

\* wg.Wait() returns once the counter is zero.
WaitGroupZero == wg = 0

\* wait(): go func() { wp.wg.Wait(); close(wp.results) }()
DrainWait(d) ==
    /\ Running
    /\ drains[d].pc = "wait"
    /\ watchers' = Append(watchers, [pc |-> "wgWait"])
    /\ drains' = [drains EXCEPT ![d].pc = "range"]
    /\ UNCHANGED << poolVars, jobs, results, receiver, wg, workers, sw, sj,
                    calls, mainpc, proc, histVars >>

\* wp.wg.Wait() in the goroutine of wait()
WatcherWait(k) ==
    /\ Running
    /\ watchers[k].pc = "wgWait"
    /\ WaitGroupZero
    /\ watchers' = [watchers EXCEPT ![k].pc = "close"]
    /\ UNCHANGED << poolVars, jobs, results, receiver, wg, workers, sw, sj,
                    drains, calls, mainpc, proc, histVars >>

\* close(wp.results) in the goroutine of wait(); closing a closed channel panics.
WatcherClose(k) ==
    /\ Running
    /\ watchers[k].pc = "close"
    /\ IF results.closed
       THEN /\ proc' = PanicCloseClosed
            /\ UNCHANGED << results, watchers, nClose >>
       ELSE /\ results' = [results EXCEPT !.closed = TRUE]
            /\ watchers' = [watchers EXCEPT ![k].pc = "ret"]
            /\ nClose' = nClose + 1
            /\ proc' = proc
    /\ UNCHANGED << poolVars, jobs, receiver, wg, workers, sw, sj, drains,
                    calls, mainpc, execLog, nZero, logged >>

\* The body of the loop `for res := range wp.results` of each drain mode:
\* Wait drops res, WaitAndReturnResults appends it, StreamResults goes on to
\* forward it.
DrainTake(d, res) ==
    CASE drains[d].mode = "Wait" -> drains
      [] drains[d].mode = "WaitAndReturnResults" ->
            [drains EXCEPT ![d].acc = Append(drains[d].acc, res)]
      [] drains[d].mode = "StreamResults" ->
            [drains EXCEPT ![d].cur = res, ![d].pc = "fwd"]

\* for res := range wp.results: a Result is received, from the buffer or, on an
\* unbuffered channel, straight from a worker blocked in its send.
DrainRecv(d) ==
    /\ Running
    /\ drains[d].pc = "range"
    /\ \/ /\ results.buf # << >>
          /\ drains' = DrainTake(d, Head(results.buf))
          /\ results' = [results EXCEPT !.buf = Tail(results.buf)]
          /\ workers' = workers
       \/ /\ Unbuffered
          /\ ~results.closed
          /\ \E w \in WorkerIds :
                /\ workers[w].pc = "send"
                /\ drains' = DrainTake(d, WorkerResult(w))
                /\ workers' = [workers EXCEPT ![w] = NewWorker]
          /\ results' = results
    /\ UNCHANGED << poolVars, jobs, receiver, wg, sw, sj, watchers, calls,
                    mainpc, proc, histVars >>

\* Mutant of DrainRangeEnd: StreamResults closes the receiver before it returns.
DrainRangeEndCloseSink(d) ==
    /\ Running
    /\ drains[d].pc = "range"
    /\ results.closed
    /\ results.buf = << >>
    /\ drains' = [drains EXCEPT ![d].pc = "ret"]
    /\ receiver' = IF drains[d].mode = "StreamResults"
                   THEN [receiver EXCEPT !.closed = TRUE]
                   ELSE receiver
    /\ UNCHANGED << poolVars, jobs, results, wg, workers, sw, sj,
                    watchers, calls, mainpc, proc, histVars >>

\* for res := range wp.results: the channel is closed and drained; the drain
\* mode returns (StreamResults leaves the receiver as it is).
DrainRangeEnd(d) ==
    /\ Running
    /\ drains[d].pc = "range"
    /\ results.closed
    /\ results.buf = << >>
    /\ drains' = [drains EXCEPT ![d].pc = "ret"]
    /\ UNCHANGED << poolVars, jobs, results, receiver, wg, workers, sw, sj,
                    watchers, calls, mainpc, proc, histVars >>

\* The capacity of the channel handed to StreamResults: main makes it as long
\* as the host list; another caller chooses the capacity.
ReceiverCap == IF "sinkCap" \in DOMAIN plan THEN plan.sinkCap ELSE Len(hosts)

\* Mutant of DrainForward: StreamResults drops the Result when the receiver is full.
DrainForwardDropWhenFull(d) ==
    /\ Running
    /\ drains[d].pc = "fwd"
    /\ IF receiver.closed
       THEN /\ proc' = PanicSendClosed
            /\ UNCHANGED << receiver, drains >>
       ELSE /\ receiver' = IF Len(receiver.buf) < ReceiverCap
                           THEN [receiver EXCEPT !.buf = Append(receiver.buf, drains[d].cur)]
                           ELSE receiver
            /\ drains' = [drains EXCEPT ![d].pc = "range"]
            /\ proc' = proc
    /\ UNCHANGED << poolVars, jobs, results, wg, workers, sw, sj, watchers,
                    calls, mainpc, histVars >>

\* receiver <- res in StreamResults
DrainForward(d) ==
    /\ Running
    /\ drains[d].pc = "fwd"
    /\ IF receiver.closed
       THEN /\ proc' = PanicSendClosed
            /\ UNCHANGED << receiver, drains >>
       ELSE /\ Len(receiver.buf) < ReceiverCap
            /\ receiver' = [receiver EXCEPT !.buf = Append(receiver.buf, drains[d].cur)]
            /\ drains' = [drains EXCEPT ![d].pc = "range"]
            /\ proc' = proc
    /\ UNCHANGED << poolVars, jobs, results, wg, workers, sw, sj, watchers,
                    calls, mainpc, histVars >>

\* --------------------------------------------- the pool's steps, by goroutine
WorkerStep ==
    \/ \E w \in WorkerIds : WorkerRecv(w)
    \/ \E w \in WorkerIds : WorkerRangeEnd(w)
    \/ \E w \in WorkerIds : WorkerExecutor(w)
    \/ \E w \in WorkerIds : WorkerSend(w)
    \/ \E w \in WorkerIds : WorkerDone(w)

ScheduleWorkersStep == ScheduleWorkersAdd \/ ScheduleWorkersGo

ScheduleJobsStep == ScheduleJobsSend \/ ScheduleJobsClose

WatcherStep ==
    \/ \E k \in DOMAIN watchers : WatcherWait(k)
    \/ \E k \in DOMAIN watchers : WatcherClose(k)

\* ------------------------------------- bulk pool, used as TestMainFlow does
\* CreatePool(poolSize, queueLength, cmd, config): the pool before any call.
CreatePool(poolSize, qLen, hs) ==
    /\ numWorkers = poolSize
    /\ queueLength = qLen
    /\ hosts = hs
    /\ jobs = OpenChan
    /\ results = OpenChan
    /\ receiver = OpenChan
    /\ wg = 0
    /\ workers = << >>
    /\ sw = [pc |-> "idle", i |-> 0]
    /\ sj = [pc |-> "idle", i |-> 1]
    /\ drains = << >>
    /\ watchers = << >>
    /\ calls = << >>
    /\ proc = "running"
    /\ execLog = EmptyBag
    /\ nZero = 0
    /\ nClose = 0
    /\ logged = << >>

\* The documented usage: one drain-mode call.
OneDrain == [modes |-> << "WaitAndReturnResults" >>, concurrent |-> FALSE]

InitBulk ==
    /\ mainpc = "ScheduleWorkers"
    /\ a22 = NoAppend22
    /\ executor = Ssh
    /\ plan = OneDrain
    /\ \E n \in 1..MaxWorkers, q \in 0..MaxQueue, hs \in SeqUpTo(HostNames, MaxHosts) :
          CreatePool(n, q, hs)

\* wp.ScheduleWorkers()
TestScheduleWorkers ==
    /\ Running
    /\ mainpc = "ScheduleWorkers"
    /\ sw' = ScheduleWorkersAt(0)
    /\ mainpc' = "go ScheduleJobs"
    /\ UNCHANGED << poolVars, jobs, results, receiver, wg, workers, sj, drains,
                    watchers, calls, proc, histVars >>

\* go wp.ScheduleJobs(test.hosts), once ScheduleWorkers has returned
TestGoScheduleJobs ==
    /\ Running
    /\ mainpc = "go ScheduleJobs"
    /\ sw.pc = "ret"
    /\ sj' = ScheduleJobsAt(1)
    /\ mainpc' = "WaitAndReturnResults"
    /\ UNCHANGED << poolVars, jobs, results, receiver, wg, workers, sw, drains,
                    watchers, calls, proc, histVars >>

\* got = wp.WaitAndReturnResults(): the call
TestWaitAndReturnResults ==
    /\ Running
    /\ mainpc = "WaitAndReturnResults"
    /\ drains' = Append(drains, DrainCall(plan.modes[1]))
    /\ mainpc' = "got"
    /\ UNCHANGED << poolVars, jobs, results, receiver, wg, workers, sw, sj,
                    watchers, calls, proc, histVars >>

\* got = wp.WaitAndReturnResults(): the return
TestGot ==
    /\ Running
    /\ mainpc = "got"
    /\ drains[1].pc = "ret"
    /\ mainpc' = "done"
    /\ UNCHANGED << poolVars, jobs, results, receiver, wg, workers, sw, sj,
                    drains, watchers, calls, proc, histVars >>

DrainStepBulk ==
    \/ \E d \in DOMAIN drains : DrainWait(d)
    \/ \E d \in DOMAIN drains : DrainRecv(d)
    \/ \E d \in DOMAIN drains : DrainRangeEnd(d)

NextBulk ==
    \/ TestScheduleWorkers
    \/ TestGoScheduleJobs
    \/ TestWaitAndReturnResults
    \/ TestGot
    \/ ScheduleWorkersStep
    \/ ScheduleJobsStep
    \/ WorkerStep
    \/ WatcherStep
    \/ DrainStepBulk

SpecBulk == InitBulk /\ [][NextBulk]_vars

\* The scheduler runs some goroutine that can run.
SpecBulkFair == SpecBulk /\ WF_vars(NextBulk)

\* ------------------------------------------------------------ bulk: claims
AllWorkersExited ==
    /\ Len(workers) = numWorkers
    /\ \A w \in WorkerIds : workers[w].pc = "exited"

\* The Results held by workers that are blocked in, or about to do, their send.
RECURSIVE HeldBy(_)
HeldBy(ws) ==
    IF ws = {} THEN EmptyBag
    ELSE LET w == CHOOSE x \in ws : TRUE
         IN  SetToBag({WorkerResult(w)}) (+) HeldBy(ws \ {w})

HeldResults == HeldBy({w \in WorkerIds : workers[w].pc = "send"})

\* What the first drain call has collected so far.
Got == IF drains = << >> THEN << >> ELSE drains[1].acc

\* C1: in bulk mode under the documented usage WaitAndReturnResults returns
\* exactly one Outcome per submitted host: while it runs the hosts collected
\* are a sub-multiset of the hosts submitted (nothing duplicated or invented),
\* and when it has returned the two multisets are equal (nothing lost).
C1_Completeness ==
    /\ SeqToBag(MapHost(Got)) \sqsubseteq SeqToBag(hosts)
    /\ mainpc = "done" =>
          /\ Len(Got) = Len(hosts)
          /\ SeqToBag(MapHost(Got)) = SeqToBag(hosts)

\* C1 witness: the call has returned for a host list with a duplicate, more
\* hosts than workers, and more hosts than the queue holds.
C1_Witness ==
    /\ mainpc = "done"
    /\ Len(hosts) = 2
    /\ hosts[1] = hosts[2]
    /\ numWorkers = 1
    /\ Len(Got) = 2

BulkDone ==
    /\ sj.pc = "ret"
    /\ AllWorkersExited
    /\ results.closed
    /\ mainpc = "done"

\* C2: bulk mode never deadlocks: under fair scheduling ScheduleJobs returns,
\* every worker leaves its loop, the Result Queue is closed and the drain call
\* returns, for every host count, worker count and queue capacity.
C2_Terminates == <>BulkDone

\* C2 witness: the run has ended with unbuffered queues and more hosts than workers.
C2_Witness ==
    /\ BulkDone
    /\ queueLength = 0
    /\ Len(hosts) = 2
    /\ numWorkers = 1

\* C7: under the documented usage the exit counter reaches zero exactly once
\* and the Result Queue is closed exactly once, by the one teardown watcher:
\* never more than once, and exactly once when every worker has exited
\* (resp. when the drain call has returned).
C7_ZeroOnceCloseOnce ==
    /\ nZero <= 1
    /\ nClose <= 1
    /\ Len(watchers) <= 1
    /\ results.closed <=> (nClose = 1 /\ watchers # << >> /\ watchers[1].pc = "ret")
    /\ results.closed => nZero = 1
    /\ AllWorkersExited => (nZero = 1 /\ wg = 0)
    /\ mainpc = "done" => (nZero = 1 /\ nClose = 1)

\* C7 witness: the run is over, two workers have exited, the queue was closed.
C7_Witness ==
    /\ mainpc = "done"
    /\ numWorkers = 2
    /\ AllWorkersExited
    /\ nZero = 1
    /\ nClose = 1

\* C8: a host's Outcome carries exactly what the executor returned for it (an
\* error if and only if the executor returned one); an executor error stops no
\* worker (a worker leaves its loop only when the Job Queue is closed and
\* empty), and closes or aborts nothing (the Job Queue is closed only by
\* ScheduleJobs, the Result Queue only after every worker has exited, and the
\* process never panics).
C8_Isolation ==
    /\ proc = "running"
    /\ execLog = HeldResults (+) SeqToBag(results.buf) (+) SeqToBag(Got)
    /\ \A w \in WorkerIds :
          workers[w].pc \in {"wgDone", "exited"} => (jobs.closed /\ jobs.buf = << >>)
    /\ jobs.closed => sj.pc = "ret"
    /\ results.closed => AllWorkersExited

\* C8 witness: one worker served a host whose executor failed and then a host
\* whose executor succeeded; both Outcomes were returned.
C8_Witness ==
    /\ mainpc = "done"
    /\ numWorkers = 1
    /\ Len(Got) = 2
    /\ Got[1].Err # Nil
    /\ Got[2].Err = Nil

\* The workers that are inside their processing loop.
InLoop == {w \in WorkerIds : workers[w].pc \notin {"wgDone", "exited"}}

\* The workers that have not executed wp.wg.Done().
NotSignalled == {w \in WorkerIds : workers[w].pc # "exited"}

\* ScheduleWorkers has executed wp.wg.Add(1) for a worker it has yet to start.
AddedNotStarted == IF sw.pc = "go" THEN 1 ELSE 0

\* C19 as claimed: in every reachable state the exit counter equals the number
\* of workers that have been spawned and have not yet left their processing
\* loop.
C19_CounterIsWorkersInLoop == wg = Cardinality(InLoop)

\* C19 as amended: in every reachable state the exit counter equals the number
\* of workers that have been spawned and have not yet executed Done, plus one
\* while ScheduleWorkers is between Add(1) and the `go` of that worker (so a
\* worker is counted from before it starts until after it has left its loop).
\* ScheduleWorkers increments it numWorkers times per call; a worker
\* decrements it once, after the Job Queue is closed and drained and while it
\* holds no WorkItem; the counter is never negative.
C19_ExitCounter ==
    /\ wg = Cardinality(NotSignalled) + AddedNotStarted
    /\ wg >= 0
    /\ Len(workers) + AddedNotStarted <= numWorkers
    /\ sw.pc = "ret" => Len(workers) = numWorkers
    /\ \A w \in WorkerIds :
          workers[w].pc \in {"wgDone", "exited"} =>
              /\ jobs.closed
              /\ jobs.buf = << >>
              /\ workers[w].host = ""

\* C19 witness: of two workers one has signalled its exit while the other is
\* still inside the executor with the last host; the counter is one.
C19_Witness ==
    /\ numWorkers = 2
    /\ Len(workers) = 2
    /\ \E w \in WorkerIds : workers[w].pc = "exited"
    /\ \E w \in WorkerIds : workers[w].pc = "exec"
    /\ wg = 1

\* The hosts ScheduleJobs has pushed: the Job Queue, or the worker it handed
\* the host to, has accepted them.
Pushed == SubSeq(hosts, 1, sj.i - 1)

\* How often h occurs in a sequence of hosts.
Count(s, h) == Cardinality({i \in DOMAIN s : s[i] = h})

\* The workers that hold host h and have not yet got the executor's return.
Executing(h) == {w \in WorkerIds : workers[w].pc = "exec" /\ workers[w].host = h}

\* How often the executor has returned for host h.
ExecCount(h) ==
    LET of_h == {r \in DOMAIN execLog : r.Host = h}
    IN  BagCardinality([r \in of_h |-> execLog[r]])

\* C20 (exactly-once execution): every WorkItem ScheduleJobs has pushed is in
\* the Job Queue, or held by exactly one worker that is inside the executor
\* for it, or the executor has returned for it exactly once: never twice, not
\* after an error either; and when the run has ended the executor has
\* returned once for every entry of the host list.
C20_ExactlyOnce ==
    \A h \in HostNames :
        /\ Count(Pushed, h) = Count(jobs.buf, h) + Cardinality(Executing(h)) + ExecCount(h)
        /\ mainpc = "done" => ExecCount(h) = Count(hosts, h)

\* C20 witness: the run has ended; the host list named one host twice, the
\* executor returned for it twice, once with an error.
C20_Witness ==
    /\ mainpc = "done"
    /\ numWorkers = 2
    /\ Len(hosts) = 2
    /\ hosts[1] = hosts[2]
    /\ ExecCount(hosts[1]) = 2
    /\ \E r \in DOMAIN execLog : r.Err # Nil

\* ===================================================== the synchronous pool
\* The executor has not returned for this call.
NoExec == [Output |-> "none", Err |-> "none"]

\* The goroutine `go func(h string) {...}(host)` of main before it calls RunJob.
\* host, ctx, res, done are RunJob's parameters and locals (ctx: ctx.Done() is
\* closed); ret is what RunJob returned. History: atCall (ctx was already
\* cancelled when RunJob was called), accepted (the Job Queue took the
\* WorkItem), exec (what the executor returned for it), via (the select case
\* RunJob returned through), inFlight (ctx was cancelled after the Job Queue
\* accepted the WorkItem and before close(job.done)).
NewCall(h) ==
    [pc |-> "idle", host |-> h, ctx |-> FALSE, res |-> ZeroResult, done |-> FALSE,
     ret |-> [result |-> ZeroResult, err |-> Nil],
     atCall |-> FALSE, accepted |-> FALSE, exec |-> NoExec, via |-> "",
     inFlight |-> FALSE]

CallIds == DOMAIN calls

\* The owner of the context cancels it, at any time before RunJob has
\* returned, also before the call (a later cancel has nothing left to act on).
CtxCancel(c) ==
    /\ Running
    /\ ~calls[c].ctx
    /\ calls[c].pc # "ret"
    /\ calls' = [calls EXCEPT ![c].ctx = TRUE,
                              ![c].inFlight = calls[c].accepted /\ ~calls[c].done]
    /\ UNCHANGED << poolVars, jobs, results, receiver, wg, workers, sw, sj,
                    drains, watchers, mainpc, proc, histVars >>

\* RunJob is called: res := new(Result); done := make(chan struct{})
RunJobCall(c) ==
    /\ Running
    /\ calls[c].pc = "idle"
    /\ calls' = [calls EXCEPT ![c].pc = "select1",
                              ![c].res = ZeroResult,
                              ![c].done = FALSE,
                              ![c].atCall = calls[c].ctx]
    /\ UNCHANGED << poolVars, jobs, results, receiver, wg, workers, sw, sj,
                    drains, watchers, mainpc, proc, histVars >>

\* Mutant of RunJobSend: the send succeeds without a worker that is receiving.
RunJobSendNoRendezvous(c, w) ==
    /\ Running
    /\ calls[c].pc = "select1"
    /\ ~jobs.closed
    /\ calls' = [calls EXCEPT ![c].pc = "select2", ![c].accepted = TRUE]
    /\ workers' = [workers EXCEPT ![w].pc = "exec",
                                  ![w].host = calls[c].host,
                                  ![w].ref = c]
    /\ UNCHANGED << poolVars, jobs, results, receiver, wg, sw, sj, drains,
                    watchers, mainpc, proc, histVars >>

\* First select, case wp.jobs <- JobResult{host, res, done}: wp.jobs is
\* unbuffered, so the send is a rendezvous with a worker blocked in
\* `for job := range wp.jobs`, which then enters the executor.
RunJobSend(c, w) ==
    /\ Running
    /\ calls[c].pc = "select1"
    /\ ~jobs.closed
    /\ workers[w].pc = "recv"
    /\ calls' = [calls EXCEPT ![c].pc = "select2", ![c].accepted = TRUE]
    /\ workers' = [workers EXCEPT ![w].pc = "exec",
                                  ![w].host = calls[c].host,
                                  ![w].ref = c]
    /\ UNCHANGED << poolVars, jobs, results, receiver, wg, sw, sj, drains,
                    watchers, mainpc, proc, histVars >>

\* The method-level error RunJob returns from a case <-ctx.Done().
RunJobCancelErr == Nil

\* Mutant of RunJobCancel1: the WorkItem is handed to an idle worker although
\* RunJob returns through the cancellation case.
RunJobCancel1AfterSend(c) ==
    /\ Running
    /\ calls[c].pc = "select1"
    /\ calls[c].ctx
    /\ \E w \in WorkerIds :
          /\ workers[w].pc = "recv"
          /\ workers' = [workers EXCEPT ![w].pc = "exec",
                                        ![w].host = calls[c].host,
                                        ![w].ref = c]
    /\ calls' = [calls EXCEPT ![c].pc = "ret",
                              ![c].ret = [result |-> ZeroResult, err |-> RunJobCancelErr],
                              ![c].via = "cancel1"]
    /\ UNCHANGED << poolVars, jobs, results, receiver, wg, sw, sj, drains,
                    watchers, mainpc, proc, histVars >>

\* First select, case <-ctx.Done(): return Result{}, nil
RunJobCancel1(c) ==
    /\ Running
    /\ calls[c].pc = "select1"
    /\ calls[c].ctx
    /\ calls' = [calls EXCEPT ![c].pc = "ret",
                              ![c].ret = [result |-> ZeroResult, err |-> RunJobCancelErr],
                              ![c].via = "cancel1"]
    /\ UNCHANGED << poolVars, jobs, results, receiver, wg, workers, sw, sj,
                    drains, watchers, mainpc, proc, histVars >>

\* Mutant of RunJobResult: the done case returns Result{} instead of *res.
RunJobResultZero(c) == ZeroResult

\* *res, as read by `return *res, nil`.
RunJobResult(c) == calls[c].res

\* Second select, case <-done: return *res, nil
RunJobDone(c) ==
    /\ Running
    /\ calls[c].pc = "select2"
    /\ calls[c].done
    /\ calls' = [calls EXCEPT ![c].pc = "ret",
                              ![c].ret = [result |-> RunJobResult(c), err |-> Nil],
                              ![c].via = "done"]
    /\ UNCHANGED << poolVars, jobs, results, receiver, wg, workers, sw, sj,
                    drains, watchers, mainpc, proc, histVars >>

\* Mutant of RunJobCancel2: the cancellation return hands out *res as it is.
RunJobCancel2ReturnsRes(c) ==
    /\ Running
    /\ calls[c].pc = "select2"
    /\ calls[c].ctx
    /\ calls' = [calls EXCEPT ![c].pc = "ret",
                              ![c].ret = [result |-> calls[c].res, err |-> RunJobCancelErr],
                              ![c].via = "cancel2"]
    /\ UNCHANGED << poolVars, jobs, results, receiver, wg, workers, sw, sj,
                    drains, watchers, mainpc, proc, histVars >>

\* Second select, case <-ctx.Done(): return Result{}, nil
RunJobCancel2(c) ==
    /\ Running
    /\ calls[c].pc = "select2"
    /\ calls[c].ctx
    /\ calls' = [calls EXCEPT ![c].pc = "ret",
                              ![c].ret = [result |-> ZeroResult, err |-> RunJobCancelErr],
                              ![c].via = "cancel2"]
    /\ UNCHANGED << poolVars, jobs, results, receiver, wg, workers, sw, sj,
                    drains, watchers, mainpc, proc, histVars >>

\* ------------------------------------------------ synchronous pool: worker
\* Mutant of SyncWorkerAfter: close(job.done) comes before job.result.Err = err.
SyncWorkerAfterCloseEarly(pc) ==
    CASE pc = "exec" -> "wHost"
      [] pc = "wHost" -> "wOutput"
      [] pc = "wOutput" -> "close"
      [] pc = "close" -> "wErr"
      [] pc = "wErr" -> "recv"

\* Mutant of SyncWorkerAfter: the worker returns after its first job.
SyncWorkerAfterOneJob(pc) ==
    CASE pc = "exec" -> "wHost"
      [] pc = "wHost" -> "wOutput"
      [] pc = "wOutput" -> "wErr"
      [] pc = "wErr" -> "close"
      [] pc = "close" -> "exited"

\* The order of the statements of the worker's loop body: executor, the three
\* writes to *job.result, close(job.done), and back to the range.
SyncWorkerAfter(pc) ==
    CASE pc = "exec" -> "wHost"
      [] pc = "wHost" -> "wOutput"
      [] pc = "wOutput" -> "wErr"
      [] pc = "wErr" -> "close"
      [] pc = "close" -> "recv"

\* output, err := wp.executor(job.host) returns.
SyncWorkerExecutor(w) ==
    /\ Running
    /\ workers[w].pc = "exec"
    /\ \E r \in ExecutorOutcomes(workers[w].host) :
          /\ workers' = [workers EXCEPT ![w].pc = SyncWorkerAfter("exec"),
                                        ![w].output = r.Output,
                                        ![w].err = r.Err]
          /\ calls' = [calls EXCEPT ![workers[w].ref].exec = r]
    /\ UNCHANGED << poolVars, jobs, results, receiver, wg, sw, sj, drains,
                    watchers, mainpc, proc, histVars >>

\* job.result.Host = job.host
SyncWorkerWriteHost(w) ==
    /\ Running
    /\ workers[w].pc = "wHost"
    /\ calls' = [calls EXCEPT ![workers[w].ref].res.Host = workers[w].host]
    /\ workers' = [workers EXCEPT ![w].pc = SyncWorkerAfter("wHost")]
    /\ UNCHANGED << poolVars, jobs, results, receiver, wg, sw, sj, drains,
                    watchers, mainpc, proc, histVars >>

\* job.result.Output = output
SyncWorkerWriteOutput(w) ==
    /\ Running
    /\ workers[w].pc = "wOutput"
    /\ calls' = [calls EXCEPT ![workers[w].ref].res.Output = workers[w].output]
    /\ workers' = [workers EXCEPT ![w].pc = SyncWorkerAfter("wOutput")]
    /\ UNCHANGED << poolVars, jobs, results, receiver, wg, sw, sj, drains,
                    watchers, mainpc, proc, histVars >>

\* job.result.Err = err
SyncWorkerWriteErr(w) ==
    /\ Running
    /\ workers[w].pc = "wErr"
    /\ calls' = [calls EXCEPT ![workers[w].ref].res.Err = workers[w].err]
    /\ workers' = [workers EXCEPT ![w].pc = SyncWorkerAfter("wErr")]
    /\ UNCHANGED << poolVars, jobs, results, receiver, wg, sw, sj, drains,
                    watchers, mainpc, proc, histVars >>

\* Mutant of SyncWorkerCloseDone: the worker signals with a send on the
\* unbuffered done channel, which needs the caller in its second select.
SyncWorkerSendDone(w) ==
    /\ Running
    /\ workers[w].pc = "close"
    /\ calls[workers[w].ref].pc = "select2"
    /\ calls' = [calls EXCEPT ![workers[w].ref].done = TRUE]
    /\ workers' = [workers EXCEPT ![w].pc = SyncWorkerAfter("close")]
    /\ UNCHANGED << poolVars, jobs, results, receiver, wg, sw, sj, drains,
                    watchers, mainpc, proc, histVars >>

\* close(job.done); closing a closed channel panics. The loop goes round.
SyncWorkerCloseDone(w) ==
    /\ Running
    /\ workers[w].pc = "close"
    /\ IF calls[workers[w].ref].done
       THEN /\ proc' = PanicCloseClosed
            /\ UNCHANGED << calls, workers >>
       ELSE /\ calls' = [calls EXCEPT ![workers[w].ref].done = TRUE]
            /\ workers' = [workers EXCEPT ![w].pc = SyncWorkerAfter("close")]
            /\ proc' = proc
    /\ UNCHANGED << poolVars, jobs, results, receiver, wg, sw, sj, drains,
                    watchers, mainpc, histVars >>

\* `for job := range wp.jobs` and what follows the loop: the receive is the
\* rendezvous with a RunJob call in its first select; on a closed channel the
\* loop ends and wp.wg.Done() follows.
SyncWorkerRange(w) ==
    IF WorkerLoopEnded(w) THEN WorkerDone(w)
    ELSE IF jobs.closed THEN WorkerRangeEnd(w)
    ELSE \E c \in CallIds : RunJobSend(c, w)

SyncWorkerStep ==
    \/ \E w \in WorkerIds : SyncWorkerRange(w)
    \/ \E w \in WorkerIds : SyncWorkerExecutor(w)
    \/ \E w \in WorkerIds : SyncWorkerWriteHost(w)
    \/ \E w \in WorkerIds : SyncWorkerWriteOutput(w)
    \/ \E w \in WorkerIds : SyncWorkerWriteErr(w)
    \/ \E w \in WorkerIds : SyncWorkerCloseDone(w)

RunJobStep ==
    \/ \E c \in CallIds : RunJobCall(c)
    \/ \E c \in CallIds : RunJobCancel1(c)
    \/ \E c \in CallIds : RunJobDone(c)
    \/ \E c \in CallIds : RunJobCancel2(c)

\* ------------------------------- synchronous pool, used as main and the test do
\* pool := api.CreatePool(numWorkers, remoteCommand, sshConf): make(chan JobResult)
InitSync ==
    /\ mainpc = "ScheduleWorkers"
    /\ a22 = NoAppend22
    /\ executor = Ssh
    /\ plan = [modes |-> << >>, concurrent |-> FALSE]
    /\ \E n \in 1..MaxWorkers, hs \in SeqUpTo(HostNames, MaxHosts) :
          CreatePool(n, 0, hs)

\* pool.ScheduleWorkers()
MainScheduleWorkers ==
    /\ Running
    /\ mainpc = "ScheduleWorkers"
    /\ sw' = ScheduleWorkersAt(0)
    /\ mainpc' = "go RunJob"
    /\ UNCHANGED << poolVars, jobs, results, receiver, wg, workers, sj, drains,
                    watchers, calls, proc, histVars >>

\* for _, host := range hosts { wg.Add(1); go func(h string) {...}(host) }
MainGoRunJob ==
    /\ Running
    /\ mainpc = "go RunJob"
    /\ sw.pc = "ret"
    /\ IF Len(calls) < Len(hosts)
       THEN /\ calls' = Append(calls, NewCall(hosts[Len(calls) + 1]))
            /\ mainpc' = mainpc
       ELSE /\ mainpc' = "wg.Wait"
            /\ calls' = calls
    /\ UNCHANGED << poolVars, jobs, results, receiver, wg, workers, sw, sj,
                    drains, watchers, proc, histVars >>

\* Mutant of MainWait: main closes the Job Queue once every call has returned.
MainWaitCloseJobs ==
    /\ Running
    /\ mainpc = "wg.Wait"
    /\ \A c \in CallIds : calls[c].pc = "ret"
    /\ mainpc' = "done"
    /\ jobs' = [jobs EXCEPT !.closed = TRUE]
    /\ UNCHANGED << poolVars, results, receiver, wg, workers, sw, sj,
                    drains, watchers, calls, proc, histVars >>

\* wg.Wait() of main: every goroutine has returned from RunJob.
MainWait ==
    /\ Running
    /\ mainpc = "wg.Wait"
    /\ \A c \in CallIds : calls[c].pc = "ret"
    /\ mainpc' = "done"
    /\ UNCHANGED << poolVars, jobs, results, receiver, wg, workers, sw, sj,
                    drains, watchers, calls, proc, histVars >>

NextSync ==
    \/ MainScheduleWorkers
    \/ MainGoRunJob
    \/ MainWait
    \/ ScheduleWorkersStep
    \/ \E c \in CallIds : CtxCancel(c)
    \/ RunJobStep
    \/ SyncWorkerStep

SpecSync == InitSync /\ [][NextSync]_vars

\* The steps of the program's own goroutines (cancelling is the caller's choice).
SyncProgramStep ==
    \/ MainScheduleWorkers
    \/ MainGoRunJob
    \/ MainWait
    \/ ScheduleWorkersStep
    \/ RunJobStep
    \/ SyncWorkerStep

\* The scheduler runs some goroutine that can run.
SpecSyncFair == SpecSync /\ WF_vars(SyncProgramStep)

\* ----------------------------------------------------- synchronous: claims
\* The Outcome a call must get: its own host, and what the executor returned.
Expected(c) ==
    [Host |-> calls[c].host, Output |-> calls[c].exec.Output, Err |-> calls[c].exec.Err]

\* C3: a RunJob call whose context is never cancelled returns (Outcome, nil),
\* the Outcome holding the host this call submitted and the output and error
\* the executor returned for it; an executor error is never the method's error.
C3_RunJobOutcome ==
    \A c \in CallIds :
        (calls[c].pc = "ret" /\ ~calls[c].ctx) =>
            /\ calls[c].via = "done"
            /\ calls[c].exec \in ExecutorReturns
            /\ calls[c].ret = [result |-> Expected(c), err |-> Nil]

\* C3 witness: two concurrent calls for the same host have returned, one with
\* an executor error in its Outcome and one without.
C3_Witness ==
    /\ Len(calls) = 2
    /\ calls[1].host = calls[2].host
    /\ \A c \in CallIds : calls[c].pc = "ret" /\ ~calls[c].ctx
    /\ calls[1].ret.result.Err # Nil
    /\ calls[2].ret.result.Err = Nil
    /\ numWorkers = 1

\* C4: whenever RunJob returns because its context was cancelled, at either
\* select, it returns a non-nil method-level error.
C4_CancelReturnsError ==
    \A c \in CallIds :
        (calls[c].pc = "ret" /\ calls[c].via \in {"cancel1", "cancel2"}) =>
            calls[c].ret.err # Nil

\* C5: a RunJob call whose context is already cancelled when it is called never
\* has its WorkItem accepted by the Job Queue, and the executor is never
\* invoked for it.
C5_CancelledAtCallNeverAccepted ==
    /\ \A c \in CallIds : calls[c].atCall => (~calls[c].accepted /\ calls[c].exec = NoExec)
    /\ \A w \in WorkerIds : workers[w].pc = "exec" => ~calls[workers[w].ref].atCall

\* The statements of the worker's loop body that come before close(job.done).
BeforeClose == {"exec", "wHost", "wOutput", "wErr", "close"}

\* C9: a WorkItem's completion signal is raised at most once (no worker is
\* still on its way to close a done channel that is closed, and no close of a
\* closed channel panics) and only after Host, Output and Err have been written
\* to the result slot; what RunJob returns through the done case is that
\* fully written Outcome.
C9_SignalAfterWrite ==
    /\ proc # PanicCloseClosed
    /\ \A w \in WorkerIds :
          workers[w].pc \in BeforeClose => ~calls[workers[w].ref].done
    /\ \A c \in CallIds :
          calls[c].done => (calls[c].exec \in ExecutorReturns /\ calls[c].res = Expected(c))
    /\ \A c \in CallIds :
          calls[c].via = "done" => calls[c].ret.result = Expected(c)

\* C9 witness: the signal of a failed job is raised and its caller, still in
\* the second select, has not read the slot yet.
C9_Witness ==
    \E c \in CallIds :
        /\ calls[c].done
        /\ calls[c].pc = "select2"
        /\ calls[c].res.Err # Nil
        /\ calls[c].res.Host = calls[c].host

\* The executor invocations in flight.
InFlight == Cardinality({w \in WorkerIds : workers[w].pc = "exec"})

\* C10: with ScheduleWorkers called once, at most numWorkers executor
\* invocations are in flight, however many RunJob callers there are.
C10_BoundedParallelism ==
    /\ InFlight <= numWorkers
    /\ Len(workers) <= numWorkers

\* C10 witness: every worker is inside the executor and one more caller waits
\* in its first select.
C10_Witness ==
    /\ InFlight = numWorkers
    /\ \E c \in CallIds : calls[c].pc = "select1"

\* C11 (no orphaned work): a call that returned through the cancellation case
\* of its first select never had its WorkItem accepted by the Job Queue, and in
\* no later state does a worker hold it, has the executor returned for it, is
\* its result slot written or its completion signal raised.
C11_NoOrphanedWork ==
    \A c \in CallIds :
        calls[c].via = "cancel1" =>
            /\ calls[c].pc = "ret"
            /\ ~calls[c].accepted
            /\ calls[c].exec = NoExec
            /\ calls[c].res = ZeroResult
            /\ ~calls[c].done
            /\ \A w \in WorkerIds : workers[w].ref # c

\* C11 witness: main is through; one call was cancelled live (not before the
\* call) and left by the first select, another one was served by the worker.
C11_Witness ==
    /\ mainpc = "done"
    /\ \E c \in CallIds : calls[c].via = "cancel1" /\ ~calls[c].atCall
    /\ \E c \in CallIds : calls[c].via = "done"

\* C12 (cancellation after enqueue): a call whose context is cancelled after
\* the Job Queue accepted its WorkItem and before the completion signal returns
\* through the cancellation case with the zero Result, without waiting for the
\* executor: the Outcome the worker goes on to write is never delivered, so
\* such a call never returns through the done case.
C12_CancelledInFlightNotDelivered ==
    \A c \in CallIds :
        (calls[c].inFlight /\ calls[c].pc = "ret") =>
            /\ calls[c].via = "cancel2"
            /\ calls[c].ret.result = ZeroResult

\* Every goroutine of main has returned from RunJob and main is through; a
\* call whose context was never cancelled was accepted by the Job Queue.
SyncDone ==
    /\ mainpc = "done"
    /\ Len(calls) = Len(hosts)
    /\ \A c \in CallIds :
          /\ calls[c].pc = "ret"
          /\ ~calls[c].ctx => (calls[c].accepted /\ calls[c].via = "done")

\* C15 (synchronous liveness): with at least one worker, an executor that
\* returns and fair scheduling, every RunJob call returns, and every call whose
\* context is never cancelled is accepted by the Job Queue first, also with
\* more concurrent callers than workers.
C15_RunJobReturns == <>SyncDone

\* C15 witness: two uncancelled callers were served by the only worker.
C15_Witness ==
    /\ SyncDone
    /\ numWorkers = 1
    /\ Len(calls) = 2
    /\ \A c \in CallIds : ~calls[c].ctx /\ calls[c].accepted

\* ============================== bulk pool, a drain mode invoked a second time
\* "these all drain the results and should only be called once!": a caller
\* that does it twice, the second call after the first has returned or while
\* the first still runs (go first(); second()), and then returns from main.
InitDrainTwice ==
    /\ mainpc = "ScheduleWorkers"
    /\ a22 = NoAppend22
    /\ executor = Ssh
    /\ \E m1 \in DrainModes, m2 \in DrainModes, conc \in BOOLEAN :
          plan = [modes |-> << m1, m2 >>, concurrent |-> conc]
    /\ \E n \in 1..MaxWorkers, q \in 0..MaxQueue, hs \in SeqUpTo(HostNames, MaxHosts) :
          CreatePool(n, q, hs)

\* The first drain-mode call.
TwiceFirst ==
    /\ Running
    /\ mainpc = "WaitAndReturnResults"
    /\ drains' = Append(drains, DrainCall(plan.modes[1]))
    /\ mainpc' = "second"
    /\ UNCHANGED << poolVars, jobs, results, receiver, wg, workers, sw, sj,
                    watchers, calls, proc, histVars >>

\* The second drain-mode call.
TwiceSecond ==
    /\ Running
    /\ mainpc = "second"
    /\ plan.concurrent \/ drains[1].pc = "ret"
    /\ drains' = Append(drains, DrainCall(plan.modes[2]))
    /\ mainpc' = "got"
    /\ UNCHANGED << poolVars, jobs, results, receiver, wg, workers, sw, sj,
                    watchers, calls, proc, histVars >>

\* The second call has returned and main returns: the program exits without
\* waiting for its other goroutines.
TwiceReturn ==
    /\ Running
    /\ mainpc = "got"
    /\ drains[2].pc = "ret"
    /\ mainpc' = "done"
    /\ proc' = "exited"
    /\ UNCHANGED << poolVars, jobs, results, receiver, wg, workers, sw, sj,
                    drains, watchers, calls, histVars >>

DrainStep ==
    \/ DrainStepBulk
    \/ \E d \in DOMAIN drains : DrainForward(d)

NextDrainTwice ==
    \/ TestScheduleWorkers
    \/ TestGoScheduleJobs
    \/ TwiceFirst
    \/ TwiceSecond
    \/ TwiceReturn
    \/ ScheduleWorkersStep
    \/ ScheduleJobsStep
    \/ WorkerStep
    \/ WatcherStep
    \/ DrainStep

SpecDrainTwice == InitDrainTwice /\ [][NextDrainTwice]_vars

\* C6 (single-drain rule): a second drain-mode invocation on the same Pool
\* ends in a panic, never in a run that completes normally with missing
\* Outcomes: when the program has ended normally, a second call that was
\* WaitAndReturnResults has returned an Outcome for every host.
C6_SecondDrainIsFatal ==
    (proc = "exited" /\ plan.modes[2] = "WaitAndReturnResults") =>
        Len(drains[2].acc) = Len(hosts)

\* ================================= bulk pool, used as the streaming main does
\* The two mains that stream: the one that starts ScheduleWorkers with `go`
\* and ranges over a sink nobody closes, and the one that calls
\* ScheduleWorkers itself and closes the sink once StreamResults has returned.
StreamPlans ==
    { [modes |-> << "StreamResults" >>, concurrent |-> FALSE,
       goScheduleWorkers |-> g, closeSink |-> k] : g \in BOOLEAN, k \in BOOLEAN }

InitStream ==
    /\ mainpc = "ScheduleWorkers"
    /\ a22 = NoAppend22
    /\ executor = Ssh
    /\ plan \in StreamPlans
    /\ \E n \in 1..MaxWorkers, q \in 0..MaxQueue, hs \in SeqUpTo(HostNames, MaxHosts) :
          CreatePool(n, q, hs)

\* pool.ScheduleWorkers() or go pool.ScheduleWorkers()
StreamScheduleWorkers ==
    /\ Running
    /\ mainpc = "ScheduleWorkers"
    /\ sw' = ScheduleWorkersAt(0)
    /\ mainpc' = "go ScheduleJobs"
    /\ UNCHANGED << poolVars, jobs, results, receiver, wg, workers, sj, drains,
                    watchers, calls, proc, histVars >>

\* go pool.ScheduleJobs(hosts); a ScheduleWorkers called without `go` has returned.
StreamGoScheduleJobs ==
    /\ Running
    /\ mainpc = "go ScheduleJobs"
    /\ plan.goScheduleWorkers \/ sw.pc = "ret"
    /\ sj' = ScheduleJobsAt(1)
    /\ mainpc' = "go StreamResults"
    /\ UNCHANGED << poolVars, jobs, results, receiver, wg, workers, sw, drains,
                    watchers, calls, proc, histVars >>

\* results := make(chan api.Result, len(hosts)); go pool.StreamResults(results)
StreamGoStreamResults ==
    /\ Running
    /\ mainpc = "go StreamResults"
    /\ drains' = Append(drains, DrainCall(plan.modes[1]))
    /\ mainpc' = "range"
    /\ UNCHANGED << poolVars, jobs, results, receiver, wg, workers, sw, sj,
                    watchers, calls, proc, histVars >>

\* close(results) in go func() { pool.StreamResults(results); close(results) }()
StreamCloseSink(d) ==
    /\ Running
    /\ plan.closeSink
    /\ drains[d].pc = "ret"
    /\ IF receiver.closed
       THEN /\ proc' = PanicCloseClosed
            /\ UNCHANGED << receiver, drains >>
       ELSE /\ receiver' = [receiver EXCEPT !.closed = TRUE]
            /\ drains' = [drains EXCEPT ![d].pc = "sinkClosed"]
            /\ proc' = proc
    /\ UNCHANGED << poolVars, jobs, results, wg, workers, sw, sj, watchers,
                    calls, mainpc, histVars >>

\* for res := range results { log res }: a Result is received from the sink.
StreamRangeRecv ==
    /\ Running
    /\ mainpc = "range"
    /\ receiver.buf # << >>
    /\ logged' = Append(logged, Head(receiver.buf))
    /\ receiver' = [receiver EXCEPT !.buf = Tail(receiver.buf)]
    /\ UNCHANGED << poolVars, jobs, results, wg, workers, sw, sj, drains,
                    watchers, calls, mainpc, proc, execLog, nZero, nClose >>

\* for res := range results: the sink is closed and drained; main returns and
\* the program exits.
StreamRangeEnd ==
    /\ Running
    /\ mainpc = "range"
    /\ receiver.closed
    /\ receiver.buf = << >>
    /\ mainpc' = "done"
    /\ proc' = "exited"
    /\ UNCHANGED << poolVars, jobs, results, receiver, wg, workers, sw, sj,
                    drains, watchers, calls, histVars >>

NextStream ==
    \/ StreamScheduleWorkers
    \/ StreamGoScheduleJobs
    \/ StreamGoStreamResults
    \/ \E d \in DOMAIN drains : StreamCloseSink(d)
    \/ StreamRangeRecv
    \/ StreamRangeEnd
    \/ ScheduleWorkersStep
    \/ ScheduleJobsStep
    \/ WorkerStep
    \/ WatcherStep
    \/ DrainStep

SpecStream == InitStream /\ [][NextStream]_vars

\* ------------------------------------------------------- streaming: claims
\* The StreamResults call has returned.
StreamResultsReturned ==
    /\ drains # << >>
    /\ drains[1].pc \in {"ret", "sinkClosed"}

\* The Result StreamResults has taken from the Result Queue and not yet forwarded.
Forwarding ==
    IF drains # << >> /\ drains[1].pc = "fwd"
    THEN SetToBag({drains[1].cur})
    ELSE EmptyBag

\* C13 as claimed: StreamResults closes the caller-supplied sink: once it has
\* returned (the Result Queue closed, every Outcome forwarded) the sink is
\* closed, whether or not the caller closes it.
C13_StreamResultsClosesSink == StreamResultsReturned => receiver.closed

\* C13 as amended: StreamResults never closes the sink. It returns once the
\* Result Queue is closed and drained, every Outcome it took from the queue
\* being in the sink or already consumed; the sink is closed only by the
\* caller's own close after StreamResults has returned, and the consumer's
\* range ends only in a program whose caller closes the sink.
C13_SinkClosedOnlyByCaller ==
    /\ receiver.closed => (plan.closeSink /\ drains[1].pc = "sinkClosed")
    /\ execLog = HeldResults (+) SeqToBag(results.buf) (+) Forwarding
                    (+) SeqToBag(receiver.buf) (+) SeqToBag(logged)
    /\ StreamResultsReturned => (results.closed /\ results.buf = << >>)
    /\ mainpc = "done" => (plan.closeSink /\ receiver.closed /\ receiver.buf = << >>)

\* C13 witness: StreamResults has returned, main has logged both Outcomes and
\* waits on the sink, which is open and which nobody is going to close.
C13_Witness ==
    /\ StreamResultsReturned
    /\ ~plan.closeSink
    /\ ~receiver.closed
    /\ mainpc = "range"
    /\ Len(logged) = 2
    /\ Len(hosts) = 2

\* ================== bulk pool, created with any worker count, also none at all
\* poolSize is an int that CreatePool stores unchecked: the worker counts that
\* are not positive.
NonPositive == {-1, 0}

InitAnyPoolSize ==
    /\ mainpc = "ScheduleWorkers"
    /\ a22 = NoAppend22
    /\ executor = Ssh
    /\ plan = OneDrain
    /\ \E n \in NonPositive \cup 1..MaxWorkers, q \in 0..MaxQueue,
          hs \in SeqUpTo(HostNames, MaxHosts) :
          CreatePool(n, q, hs)

SpecAnyPoolSize == InitAnyPoolSize /\ [][NextBulk]_vars

\* C14: CreatePool with a non-positive worker count fails and starts no
\* workers, so that no Pool without workers exists on which ScheduleJobs or a
\* drain mode is ever called, let alone returns.
C14_NoPoolWithoutWorkers ==
    numWorkers <= 0 =>
        /\ workers = << >>
        /\ sj.pc = "idle"
        /\ drains = << >>

\* ================== bulk pool with a deterministic executor, as in the tests
InitDeterministic ==
    /\ mainpc = "ScheduleWorkers"
    /\ a22 = NoAppend22
    /\ executor \in Stubs
    /\ plan = OneDrain
    /\ \E n \in 1..MaxWorkers, q \in 0..MaxQueue, hs \in SeqUpTo(HostNames, MaxHosts) :
          CreatePool(n, q, hs)

SpecDeterministic == InitDeterministic /\ [][NextBulk]_vars

\* What the stub returns for a host.
StubReturn(host) == CHOOSE r \in executor[host] : TRUE

\* resultsFromHosts(hosts): the Outcomes the test wants, one per host, in the
\* order of the host list, each what the stub returns for that host.
RECURSIVE resultsFromHosts(_)
resultsFromHosts(hs) ==
    IF hs = << >> THEN << >>
    ELSE << [Host |-> Head(hs),
             Output |-> StubReturn(Head(hs)).Output,
             Err |-> StubReturn(Head(hs)).Err] >> \o resultsFromHosts(Tail(hs))

\* C16 (determinism across worker counts): with a deterministic executor the
\* multiset of Outcomes WaitAndReturnResults returns is a function of the host
\* list and the executor alone; it is the same for every worker count, queue
\* capacity and interleaving, so two Pools agree on it.
C16_Deterministic ==
    mainpc = "done" => SeqToBag(Got) = SeqToBag(resultsFromHosts(hosts))

\* C16 witness: two workers, two hosts with different Outcomes, returned in
\* the order opposite to the host list.
C16_Witness ==
    /\ mainpc = "done"
    /\ numWorkers = 2
    /\ Len(hosts) = 2
    /\ hosts[1] # hosts[2]
    /\ executor[hosts[1]] # executor[hosts[2]]
    /\ Got = << resultsFromHosts(hosts)[2], resultsFromHosts(hosts)[1] >>

\* C18: the Result Queue is closed only after every spawned worker has exited,
\* and no worker ever sends an Outcome on the closed Result Queue, also when
\* ScheduleWorkers, ScheduleJobs and the drain-mode call run concurrently and
\* the teardown watcher reads the exit counter before ScheduleWorkers has
\* incremented it.
C18_ClosedAfterWorkersExit ==
    /\ proc # PanicSendClosed
    /\ results.closed => \A w \in WorkerIds : workers[w].pc = "exited"

\* ============================================================ utils.Append22
\* A string is the sequence of its characters; these are the characters that
\* matter to Append22: a letter, the digit 2 and the colon.
Chars == {"a", "2", ":"}

Strings == SeqUpTo(Chars, MaxStr)

Colon22 == << ":", "2", "2" >>

\* strings.Split(s, ":"): the fields between the colons, at least one field.
RECURSIVE Split(_)
Split(s) ==
    IF s = << >> THEN << << >> >>
    ELSE IF Head(s) = ":" THEN << << >> >> \o Split(Tail(s))
    ELSE LET rest == Split(Tail(s))
         IN  << << Head(s) >> \o rest[1] >> \o Tail(rest)

\* Mutant of Append22: the earlier version, which looks only for a colon.
Append22NoColonOnly(host) ==
    IF Len(Split(host)) = 1 THEN host \o Colon22 ELSE host

\* Append22(host)
Append22(host) ==
    LET parts == Split(host)
        last == parts[Len(parts)]
    IN  IF Len(parts) = 1 /\ parts[1] # << >> THEN host \o Colon22
        ELSE IF Len(parts) > 1
             THEN CASE last = << >> -> host \o << "2", "2" >>
                    [] last # << "2", "2" >> -> host \o Colon22
                    [] OTHER -> host
             ELSE host

\* A caller that applies Append22 to a string and then to the result.
InitAppend22 ==
    /\ mainpc = "Append22"
    /\ executor = Ssh
    /\ plan = OneDrain
    /\ CreatePool(1, 0, << >>)
    /\ \E h \in Strings :
          a22 = [pc |-> "call", host |-> h, res |-> << >>, again |-> << >>]

Append22Call ==
    /\ a22.pc = "call"
    /\ a22' = [a22 EXCEPT !.pc = "again", !.res = Append22(a22.host)]
    /\ UNCHANGED << numWorkers, queueLength, hosts, plan, executor, jobs, results,
                    receiver, wg, workers, sw, sj, drains, watchers, calls,
                    mainpc, proc, histVars >>

Append22Again ==
    /\ a22.pc = "again"
    /\ a22' = [a22 EXCEPT !.pc = "done", !.again = Append22(a22.res)]
    /\ UNCHANGED << numWorkers, queueLength, hosts, plan, executor, jobs, results,
                    receiver, wg, workers, sw, sj, drains, watchers, calls,
                    mainpc, proc, histVars >>

NextAppend22 == Append22Call \/ Append22Again

SpecAppend22 == InitAppend22 /\ [][NextAppend22]_vars

\* s ends with the string t.
EndsWith(s, t) ==
    /\ Len(s) >= Len(t)
    /\ SubSeq(s, Len(s) - Len(t) + 1, Len(s)) = t

\* The last colon-separated field of s.
LastField(s) == Split(s)[Len(Split(s))]

\* C17 as claimed: the input is returned unchanged when it is empty or its
\* last colon-separated field is "22", gets "22" appended when it ends with
\* ":", and ":22" in every other case; every result for a non-empty input ends
\* in ":22", and Append22 is idempotent.
C17_Append22AsClaimed ==
    a22.pc \in {"again", "done"} =>
        /\ a22.res =
              IF a22.host = << >> \/ LastField(a22.host) = << "2", "2" >> THEN a22.host
              ELSE IF EndsWith(a22.host, << ":" >>) THEN a22.host \o << "2", "2" >>
              ELSE a22.host \o Colon22
        /\ a22.host # << >> => EndsWith(a22.res, Colon22)
        /\ a22.pc = "done" => a22.again = a22.res

\* C17 as amended: the input is returned unchanged when it is empty or ends
\* with ":22" (a last field "22" after a colon), gets "22" appended when it
\* ends with ":", and ":22" in every other case, the input "22" without a
\* colon included; every result for a non-empty input ends in ":22", and
\* Append22 is idempotent.
C17_Append22 ==
    a22.pc \in {"again", "done"} =>
        /\ a22.res =
              IF a22.host = << >> \/ EndsWith(a22.host, Colon22) THEN a22.host
              ELSE IF EndsWith(a22.host, << ":" >>) THEN a22.host \o << "2", "2" >>
              ELSE a22.host \o Colon22
        /\ a22.host # << >> => EndsWith(a22.res, Colon22)
        /\ a22.pc = "done" => a22.again = a22.res

\* C17 witness: the input "22" became "22:22", and stayed so the second time.
C17_Witness ==
    /\ a22.pc = "done"
    /\ a22.host = << "2", "2" >>
    /\ a22.res = << "2", "2", ":", "2", "2" >>
    /\ a22.again = a22.res

\* ======================= bulk pool, ScheduleJobs called before the drain mode
\* The caller makes the calls one after the other: ScheduleWorkers(), then
\* ScheduleJobs(hosts) without `go`, and a drain mode only once that returned.
\* Whether a send blocks depends on how many hosts there are, not on their
\* names: the host lists of these runs repeat one host.
SeqHostLists == SeqUpTo({"h1"}, MaxSeqHosts)

InitSequential ==
    /\ mainpc = "ScheduleWorkers"
    /\ a22 = NoAppend22
    /\ executor = Ssh
    /\ plan = OneDrain
    /\ \E n \in 1..MaxWorkers, q \in 0..MaxQueue, hs \in SeqHostLists :
          CreatePool(n, q, hs)

\* wp.ScheduleJobs(hosts): the call, once ScheduleWorkers has returned
SeqScheduleJobs ==
    /\ Running
    /\ mainpc = "go ScheduleJobs"
    /\ sw.pc = "ret"
    /\ sj' = ScheduleJobsAt(1)
    /\ mainpc' = "ScheduleJobs"
    /\ UNCHANGED << poolVars, jobs, results, receiver, wg, workers, sw, drains,
                    watchers, calls, proc, histVars >>

\* wp.ScheduleJobs(hosts) has returned; got = wp.WaitAndReturnResults(): the call
SeqWaitAndReturnResults ==
    /\ Running
    /\ mainpc = "ScheduleJobs"
    /\ sj.pc = "ret"
    /\ drains' = Append(drains, DrainCall(plan.modes[1]))
    /\ mainpc' = "got"
    /\ UNCHANGED << poolVars, jobs, results, receiver, wg, workers, sw, sj,
                    watchers, calls, proc, histVars >>

NextSequential ==
    \/ TestScheduleWorkers
    \/ SeqScheduleJobs
    \/ SeqWaitAndReturnResults
    \/ TestGot
    \/ ScheduleWorkersStep
    \/ ScheduleJobsStep
    \/ WorkerStep
    \/ WatcherStep
    \/ DrainStepBulk

SpecSequential == InitSequential /\ [][NextSequential]_vars

\* The scheduler runs some goroutine that can run.
SpecSequentialFair == SpecSequential /\ WF_vars(NextSequential)

\* What the pool can take in while nobody drains: the Job Queue, the Result
\* Queue, and one WorkItem per worker.
SeqCapacity == queueLength + queueLength + numWorkers

\* ScheduleJobs is blocked in a send and nothing in the program can run: the
\* Job Queue is full, every worker is blocked sending on the full Result Queue.
SeqDeadlocked ==
    /\ mainpc = "ScheduleJobs"
    /\ sj.pc = "send"
    /\ Len(jobs.buf) = queueLength
    /\ Len(results.buf) = queueLength
    /\ Len(workers) = numWorkers
    /\ \A w \in WorkerIds : workers[w].pc = "send"
    /\ ~jobs.closed
    /\ drains = << >>

\* C21: when ScheduleJobs is run to completion before any drain mode, it
\* returns if and only if the number of hosts is at most the capacity of the
\* Job Queue plus that of the Result Queue plus the number of workers; with
\* more hosts it never returns, the Job Queue is never closed and no drain
\* mode is ever started, and the program ends up deadlocked.
C21_SequentialOrder ==
    /\ [](Len(hosts) > SeqCapacity =>
            (sj.pc # "ret" /\ ~jobs.closed /\ drains = << >>))
    /\ <>(IF Len(hosts) <= SeqCapacity THEN sj.pc = "ret" ELSE SeqDeadlocked)

\* C21 witness: the deadlock with buffered queues: five hosts, one worker and
\* queues of capacity one.
C21_Witness ==
    /\ SeqDeadlocked
    /\ Len(hosts) = 5
    /\ queueLength = 1
    /\ numWorkers = 1
    /\ sj.i = 4

\* ================== StreamResults with a sink shorter than the host list
\* The caller of the main that closes the sink, with a sink of a capacity of
\* its own choice: StreamResults finds the sink full while main is busy.
SmallSinkPlans ==
    { [modes |-> << "StreamResults" >>, concurrent |-> FALSE,
       goScheduleWorkers |-> FALSE, closeSink |-> TRUE, sinkCap |-> c] :
         c \in 1..MaxQueue }

InitSmallSink ==
    /\ mainpc = "ScheduleWorkers"
    /\ a22 = NoAppend22
    /\ executor = Ssh
    /\ plan \in SmallSinkPlans
    /\ \E n \in 1..MaxWorkers, q \in 0..MaxQueue, hs \in SeqUpTo(HostNames, MaxHosts) :
          CreatePool(n, q, hs)

SpecSmallSink == InitSmallSink /\ [][NextStream]_vars

\* What StreamResults has taken from the Result Queue, in the order in which
\* it reaches the consumer: logged, waiting in the sink, about to be forwarded.
SinkStream ==
    logged \o receiver.buf \o
        (IF drains # << >> /\ drains[1].pc = "fwd" THEN << drains[1].cur >> ELSE << >>)

\* A step that takes an Outcome from the Result Queue (or, unbuffered, from a
\* worker blocked in its send) and puts it at the end of SinkStream.
TakesNextOutcome ==
    \/ /\ results.buf # << >>
       /\ results'.buf = Tail(results.buf)
       /\ SinkStream' = Append(SinkStream, Head(results.buf))
    \/ /\ Unbuffered
       /\ \E w \in WorkerIds :
             /\ workers[w].pc = "send"
             /\ workers'[w].pc = "recv"
             /\ SinkStream' = Append(SinkStream, WorkerResult(w))

\* C22: StreamResults forwards to the sink exactly the Outcomes the workers
\* put on the Result Queue: what the executor returned is held by a worker,
\* in the Result Queue or in the stream to the consumer, each once; the stream
\* changes only by getting the Outcome just taken from the Result Queue at its
\* end (order of receipt, nothing dropped or reordered when the sink is full:
\* the sink never holds more than its capacity); and StreamResults returns
\* only after the Result Queue has been closed and emptied, with nothing left
\* to forward.
C22_StreamForwardsAll ==
    /\ [](execLog = HeldResults (+) SeqToBag(results.buf) (+) SeqToBag(SinkStream))
    /\ [](Len(receiver.buf) <= ReceiverCap)
    /\ [](StreamResultsReturned =>
            (results.closed /\ results.buf = << >> /\ SeqToBag(SinkStream) = execLog))
    /\ [][SinkStream' = SinkStream \/ TakesNextOutcome]_vars

\* C22 witness: StreamResults is blocked forwarding the second Outcome to a
\* full sink of capacity one.
C22_Witness ==
    /\ drains # << >>
    /\ drains[1].pc = "fwd"
    /\ Len(receiver.buf) = ReceiverCap
    /\ ReceiverCap = 1
    /\ Len(hosts) = 2
    /\ logged = << >>

\* ===================================== the order of the Job Queue (bulk pool)
\* The number of WorkItems taken from the Job Queue so far.
TakenCount == Len(Pushed) - Len(jobs.buf)

\* A step in which a worker takes the next WorkItem: it is the host of the
\* list at the position of the take.
TakesNextHost ==
    /\ TakenCount' = TakenCount + 1
    /\ \E w \in WorkerIds :
          /\ workers[w].pc = "recv"
          /\ workers'[w].pc = "exec"
          /\ workers'[w].host = hosts[TakenCount']

AgainPlans ==
    { [modes |-> OneDrain.modes, concurrent |-> FALSE, again |-> hs] :
         hs \in {<< >>, << "h1" >>, << "h2", "h1" >>} }

InitAgain ==
    /\ mainpc = "ScheduleWorkers"
    /\ a22 = NoAppend22
    /\ executor = Ssh
    /\ plan \in AgainPlans
    /\ \E n \in 1..MaxWorkers, q \in 0..MaxQueue, hs \in SeqUpTo(HostNames, MaxHosts) :
          CreatePool(n, q, hs)

\* The second ScheduleJobs whose loop is at plan.again[j]; i stays where the
\* first call left it.
ScheduleJobsAgainAt(j) ==
    [pc |-> IF j <= Len(plan.again) THEN "send again" ELSE "close again",
     i |-> sj.i, j |-> j]

\* go wp.ScheduleJobs(again), once the first call has returned
ScheduleJobsAgain ==
    /\ Running
    /\ sj.pc = "ret"
    /\ sj' = ScheduleJobsAgainAt(1)
    /\ UNCHANGED << poolVars, jobs, results, receiver, wg, workers, sw, drains,
                    watchers, calls, mainpc, proc, histVars >>

\* Mutant of ScheduleJobsAgainSend: a send on the closed channel is dropped
\* without a panic.
ScheduleJobsAgainSendQuiet ==
    /\ Running
    /\ sj.pc = "send again"
    /\ Len(jobs.buf) < queueLength \/ jobs.closed
    /\ jobs' = IF jobs.closed THEN jobs
                ELSE [jobs EXCEPT !.buf = Append(jobs.buf, plan.again[sj.j])]
    /\ sj' = ScheduleJobsAgainAt(sj.j + 1)
    /\ UNCHANGED << poolVars, results, receiver, wg, workers, sw, drains,
                    watchers, calls, mainpc, proc, histVars >>

\* wp.jobs <- host in the second call: a panic on the closed channel;
\* otherwise into the buffer, or straight to a worker blocked in its receive.
ScheduleJobsAgainSend ==
    /\ Running
    /\ sj.pc = "send again"
    /\ IF jobs.closed
       THEN /\ proc' = PanicSendClosed
            /\ UNCHANGED << jobs, sj, workers >>
       ELSE /\ IF Unbuffered
               THEN /\ \E w \in WorkerIds :
                         /\ workers[w].pc = "recv"
                         /\ workers' = [workers EXCEPT ![w].pc = "exec",
                                                       ![w].host = plan.again[sj.j]]
                    /\ jobs' = jobs
               ELSE /\ Len(jobs.buf) < queueLength
                    /\ jobs' = [jobs EXCEPT !.buf = Append(jobs.buf, plan.again[sj.j])]
                    /\ workers' = workers
            /\ sj' = ScheduleJobsAgainAt(sj.j + 1)
            /\ proc' = proc
    /\ UNCHANGED << poolVars, results, receiver, wg, sw, drains,
                    watchers, calls, mainpc, histVars >>

\* close(wp.jobs) in the second call
ScheduleJobsAgainClose ==
    /\ Running
    /\ sj.pc = "close again"
    /\ IF jobs.closed
       THEN /\ proc' = PanicCloseClosed
            /\ UNCHANGED << jobs, sj >>
       ELSE /\ jobs' = [jobs EXCEPT !.closed = TRUE]
            /\ sj' = [sj EXCEPT !.pc = "ret again"]
            /\ proc' = proc
    /\ UNCHANGED << poolVars, results, receiver, wg, workers, sw, drains,
                    watchers, calls, mainpc, histVars >>

ScheduleJobsAgainStep ==
    \/ ScheduleJobsAgainSend
    \/ ScheduleJobsAgainClose

NextAgain ==
    \/ NextBulk
    \/ ScheduleJobsAgain
    \/ ScheduleJobsAgainStep

SpecAgain == InitAgain /\ [][NextAgain]_vars

\* The second call has been made.
SecondCall == "j" \in DOMAIN sj

\* C24: a second ScheduleJobs on a Pool whose Job Queue the first call has
\* closed is a fatal error in every execution: while the program runs the
\* second call can take its step, and every step it can take is the panic of
\* a send on (non-empty list) or a close of (empty list) the closed channel;
\* it never gets past its first statement, so that no WorkItem of it enters
\* the Job Queue or reaches a worker, and the executor runs for the hosts of
\* the first call only.
C24_SecondScheduleJobsIsFatal ==
    /\ SecondCall =>
          /\ jobs.closed
          /\ sj.j = 1
          /\ Running =>
                /\ ENABLED (ScheduleJobsAgainStep /\ proc' \in {PanicSendClosed, PanicCloseClosed})
                /\ ~ ENABLED (ScheduleJobsAgainStep /\ proc' = proc)
    /\ jobs.buf = SubSeq(hosts, TakenCount + 1, Len(Pushed))
    /\ BagCardinality(execLog) <= TakenCount
    /\ TakenCount <= Len(hosts)

\* C24 witness: the second call has panicked in its send while a worker is
\* still executing a host of the first call.
C24_Witness ==
    /\ SecondCall
    /\ proc = PanicSendClosed
    /\ \E w \in WorkerIds : workers[w].pc = "exec"

\* ======================================= conservation of work (bulk pool)
\* The workers that hold a WorkItem: executing it or blocked sending its Outcome.
Holding == {w \in WorkerIds : workers[w].pc \in {"exec", "send"}}

\* C25: the hosts pushed by ScheduleJobs are in the Job Queue, held by a
\* worker, in the Result Queue or consumed by the drain, each in one place;
\* Outcomes consumed <= WorkItems dequeued <= hosts pushed <= hosts submitted.
C25_Conservation ==
    /\ Len(Pushed) = Len(jobs.buf) + Cardinality(Holding) + Len(results.buf) + Len(Got)
    /\ Len(Got) <= TakenCount
    /\ TakenCount <= Len(Pushed)
    /\ Len(Pushed) <= Len(hosts)

\* C25 witness: of two pushed hosts one Outcome is consumed and the other
\* WorkItem is held by a worker, after the Job Queue was closed.
C25_Witness ==
    /\ Len(Pushed) = 2
    /\ Len(Got) = 1
    /\ Cardinality(Holding) = 1
    /\ jobs.closed

\* ============================ the unbuffered Job Queue (synchronous pool)
\* The calls whose WorkItem was accepted and whose done is not yet closed.
AcceptedNotDone == {c \in CallIds : calls[c].accepted /\ ~calls[c].done}

\* The workers that are past their receive for call c.
ServedBy(c) == {w \in WorkerIds : workers[w].pc # "recv" /\ workers[w].ref = c}

\* A step that accepts the WorkItem of call c: a worker that was receiving
\* has it in the same step.
AcceptedByIdleWorker(c) ==
    \E w \in WorkerIds :
        /\ workers[w].pc = "recv"
        /\ workers'[w].pc = "exec"
        /\ workers'[w].ref = c
        /\ workers'[w].host = calls[c].host

\* C26: the Job Queue of the synchronous pool is unbuffered: a WorkItem is
\* accepted only in a step in which a worker that was receiving takes it;
\* nothing is ever held in the queue; every accepted WorkItem whose completion
\* signal is not yet raised is with exactly one worker, so that there are at
\* most as many of them as workers, at most numWorkers.
C26_Rendezvous ==
    /\ [](jobs.buf = << >>)
    /\ [](\A c \in AcceptedNotDone : Cardinality(ServedBy(c)) = 1)
    /\ [](Cardinality(AcceptedNotDone) <= Len(workers) /\ Len(workers) <= numWorkers)
    /\ [][\A c \in CallIds :
            (~calls[c].accepted /\ calls'[c].accepted) => AcceptedByIdleWorker(c)]_vars

\* C26 witness: one worker, two calls: the first is accepted and executing,
\* the second is in its first select and cannot be accepted.
C26_Witness ==
    /\ numWorkers = 1
    /\ Len(calls) = 2
    /\ Cardinality(AcceptedNotDone) = 1
    /\ \E c \in CallIds : calls[c].pc = "select1" /\ ~calls[c].accepted /\ ~calls[c].ctx

\* ========================== the workers never exit (synchronous pool)
\* C27: nothing in api.go closes the Job Queue, so no worker leaves its loop:
\* the Job Queue is never closed; no worker is past its loop; and once
\* ScheduleWorkers has returned there are numWorkers workers and the exit
\* counter is numWorkers, also after every RunJob call has returned.
C27_WorkersNeverExit ==
    /\ ~jobs.closed
    /\ \A w \in WorkerIds : workers[w].pc \notin {"wgDone", "exited"}
    /\ sw.pc = "ret" => (Len(workers) = numWorkers /\ wg = numWorkers)

\* C27 witness: two calls on two workers have returned, one by cancellation,
\* main is past its wait, and both workers are back in their receive.
C27_Witness ==
    /\ mainpc = "done"
    /\ Len(calls) = 2
    /\ numWorkers = 2
    /\ wg = 2
    /\ \E c \in CallIds : calls[c].via = "done"
    /\ \E c \in CallIds : calls[c].ctx /\ calls[c].accepted
    /\ \A w \in WorkerIds : workers[w].pc = "recv" /\ workers[w].ref # 0

\* ================== a cancelled caller and its worker (synchronous pool)
\* Every worker has been started and is in its receive on the Job Queue.
AllWorkersReceiving ==
    /\ Len(workers) = numWorkers
    /\ \A w \in WorkerIds : workers[w].pc = "recv"

\* C28: a cancelled caller never leaves a worker stuck: a worker at
\* close(job.done) can always take that step, whether its caller still waits
\* or has returned, and the close never panics; so every fair run reaches the
\* state where every call has returned, the calls that were not cancelled
\* were served, and all numWorkers workers are receiving again.
C28_NoStuckWorker ==
    /\ [](proc # PanicCloseClosed)
    /\ [](\A w \in WorkerIds :
            (Running /\ workers[w].pc = "close") => ENABLED SyncWorkerCloseDone(w))
    /\ <>(SyncDone /\ AllWorkersReceiving)

\* C28 witness: one worker; the first call it accepted returned by
\* cancellation while the worker was executing, the worker closed done with
\* nobody waiting, then served the second call, and is receiving again.
C28_Witness ==
    /\ SyncDone
    /\ AllWorkersReceiving
    /\ numWorkers = 1
    /\ Len(calls) = 2
    /\ workers[1].ref = 2
    /\ calls[1].accepted /\ calls[1].via = "cancel2" /\ calls[1].inFlight /\ calls[1].done
    /\ calls[2].via = "done"

\* ============================== what RunJob returns (synchronous pool)
\* C29: RunJob returns the complete Outcome written by the worker, with the
\* submitted host, or the zero Outcome, never anything else (no half-written
\* slot): the return through done is the complete Outcome, a cancellation
\* return is the zero Outcome whatever the result slot holds, and with done
\* closed and the context cancelled at the second select both returns can be
\* taken.
C29_CompleteOrZero ==
    \A c \in CallIds :
        /\ calls[c].pc = "ret" =>
              /\ calls[c].ret.result \in {Expected(c), ZeroResult}
              /\ calls[c].via = "done" =>
                    /\ calls[c].ret.result = Expected(c)
                    /\ calls[c].ret.result.Host = calls[c].host
              /\ calls[c].via \in {"cancel1", "cancel2"} =>
                    calls[c].ret.result = ZeroResult
        /\ (Running /\ calls[c].pc = "select2" /\ calls[c].done /\ calls[c].ctx) =>
              /\ ENABLED RunJobDone(c)
              /\ ENABLED RunJobCancel2(c)

\* C29 witness: two calls were cancelled after the worker had written the
\* whole result slot and closed done; one returned the zero Outcome, the
\* other the complete one.
C29_Witness ==
    /\ Len(calls) = 2
    /\ \A c \in CallIds :
          /\ calls[c].pc = "ret"
          /\ calls[c].ctx /\ calls[c].done /\ ~calls[c].inFlight
          /\ calls[c].res = Expected(c)
    /\ calls[1].via = "cancel2" /\ calls[1].ret.result = ZeroResult
    /\ calls[2].via = "done" /\ calls[2].ret.result = Expected(2)

\* ===================================================== the legacy driver
\* remoteCommand with queueWorkers, schedule and a done channel; the three
\* channels of newRemoteCommand have the capacity 2*numWorkers.
LegacyCapacity(n) == 2 * n

\* conf.sshPort
RemotePort == "22"

\* fmt.Sprintf("%s:%s", host, remotePort)
Addr(host) == host \o ":" \o RemotePort

\* The executor of remoteCommand.worker: ssh to the address it is given.
LegacySsh == [a \in {Addr(h) : h \in HostNames} |-> ExecutorReturns]

InitLegacy ==
    /\ mainpc = "go queueWorkers"
    /\ a22 = NoAppend22
    /\ executor = LegacySsh
    /\ plan = [modes |-> << >>, concurrent |-> FALSE]
    /\ \E n \in 1..MaxWorkers, hs \in SeqUpTo(HostNames, MaxHosts) :
          CreatePool(n, LegacyCapacity(n), hs)

\* done := make(chan bool); go rc.queueWorkers(conf.numWorkers, done)
LegacyGoQueueWorkers ==
    /\ Running
    /\ mainpc = "go queueWorkers"
    /\ sw' = ScheduleWorkersAt(0)
    /\ mainpc' = "go schedule"
    /\ UNCHANGED << poolVars, jobs, results, receiver, wg, workers, sj, drains,
                    watchers, calls, proc, histVars >>

\* go rc.schedule(hosts, conf.sshPort)
LegacyGoSchedule ==
    /\ Running
    /\ mainpc = "go schedule"
    /\ sj' = ScheduleJobsAt(1)
    /\ mainpc' = "select"
    /\ UNCHANGED << poolVars, jobs, results, receiver, wg, workers, sw, drains,
                    watchers, calls, proc, histVars >>

\* queueWorkers: wg.Wait() after the loop; then it stands in `done <- true`.
LegacyWgWait ==
    /\ Running
    /\ sw.pc = "ret"
    /\ WaitGroupZero
    /\ sw' = [sw EXCEPT !.pc = "done <- true"]
    /\ UNCHANGED << poolVars, jobs, results, receiver, wg, workers, sj, drains,
                    watchers, calls, mainpc, proc, histVars >>

\* schedule: r.jobs <- fmt.Sprintf("%s:%s", host, remotePort)
LegacyScheduleSend ==
    /\ Running
    /\ sj.pc = "send"
    /\ IF jobs.closed
       THEN /\ proc' = PanicSendClosed
            /\ UNCHANGED << jobs, sj >>
       ELSE /\ Len(jobs.buf) < queueLength
            /\ jobs' = [jobs EXCEPT !.buf = Append(jobs.buf, Addr(hosts[sj.i]))]
            /\ sj' = ScheduleJobsAt(sj.i + 1)
            /\ proc' = proc
    /\ UNCHANGED << poolVars, results, receiver, wg, workers, sw, drains,
                    watchers, calls, mainpc, histVars >>

\* remoteCommand.worker: for host := range r.jobs
LegacyWorkerRecv(w) ==
    /\ Running
    /\ workers[w].pc = "recv"
    /\ jobs.buf # << >>
    /\ workers' = [workers EXCEPT ![w].pc = "exec", ![w].host = Head(jobs.buf)]
    /\ jobs' = [jobs EXCEPT !.buf = Tail(jobs.buf)]
    /\ UNCHANGED << poolVars, results, receiver, wg, sw, sj, drains, watchers,
                    calls, mainpc, proc, histVars >>

\* main's select, case res := <-rc.results: the result is logged.
LegacySelectResult ==
    /\ Running
    /\ mainpc = "select"
    /\ results.buf # << >>
    /\ logged' = Append(logged, Head(results.buf))
    /\ results' = [results EXCEPT !.buf = Tail(results.buf)]
    /\ UNCHANGED << poolVars, jobs, receiver, wg, workers, sw, sj, drains,
                    watchers, calls, mainpc, proc, execLog, nZero, nClose >>

\* main's select, case <-done: the rendezvous with queueWorkers' send; main
\* returns and the program exits.
LegacySelectDone ==
    /\ Running
    /\ mainpc = "select"
    /\ sw.pc = "done <- true"
    /\ sw' = [sw EXCEPT !.pc = "returned"]
    /\ mainpc' = "done"
    /\ proc' = "exited"
    /\ UNCHANGED << poolVars, jobs, results, receiver, wg, workers, sj, drains,
                    watchers, calls, histVars >>

LegacyWorkerStep ==
    \/ \E w \in WorkerIds : LegacyWorkerRecv(w)
    \/ \E w \in WorkerIds : WorkerRangeEnd(w)
    \/ \E w \in WorkerIds : WorkerExecutor(w)
    \/ \E w \in WorkerIds : WorkerSend(w)
    \/ \E w \in WorkerIds : WorkerDone(w)

NextLegacy ==
    \/ LegacyGoQueueWorkers
    \/ LegacyGoSchedule
    \/ ScheduleWorkersStep
    \/ LegacyWgWait
    \/ LegacyScheduleSend
    \/ ScheduleJobsClose
    \/ LegacyWorkerStep
    \/ LegacySelectResult
    \/ LegacySelectDone

SpecLegacy == InitLegacy /\ [][NextLegacy]_vars

\* C30: main of the legacy driver has handled the result of every scheduled
\* host when it returns on the done signal: every result the executor
\* produced is logged and none is left in the results channel.
C30_AllResultsHandled ==
    mainpc = "done" =>
        /\ Len(logged) = Len(hosts)
        /\ results.buf = << >>
        /\ SeqToBag(logged) = execLog

====
